---- MODULE Spec2Model ----
(***************************************************************************)
(* Model of the scrape pipeline of the jobsearch backend:                  *)
(*   scraper/pipeline.py  run_scrape, _insert_listings                     *)
(*   scraper/engine.py    BrowserEngine                                    *)
(*   rules/common.py      normalize_url, field normalizers                 *)
(*   rules/filters.py     matches_filters                                  *)
(*   rules/registry.py    get_site                                         *)
(*   rules/aggregators/xing.py and rules/companies/*.py   fetch, parse     *)
(*   db/models.py         Job (unique url), ScrapeRun                      *)
(*   db/connection.py     SessionLocal (autoflush off, one session per run)*)
(* Every worker in Procs is one invocation of run_scrape with its own      *)
(* database session; the jobs and scrape_runs tables are shared.           *)
(***************************************************************************)
EXTENDS Integers, Sequences, FiniteSets, TLC

\* ------------------------------------------------------------------ bounds
MaxSites == 2        \* longest list of targeted adapters in one run
MaxBatch == 3        \* most listings one adapter returns
MaxQuery == 2        \* most pairs in the query of a URL handed to normalize_url
MaxCards == 2        \* most listing cards in the html handed to parse
MaxCalls == 4        \* most calls made on one BrowserEngine used on its own
MaxSearches == 2     \* largest max_searches given to the xing adapter

Procs == {1, 2}      \* invocations of run_scrape that may overlap
None == <<>>         \* Python None: an optional value is None or <<v>>

\* ------------------------------------------------ URLs (rules/common.py)
\* A URL string is written as its parts: scheme, host, the path as a
\* sequence of tokens ("/", ";" or a name; everything from the first ";"
\* after the last "/" on is the parameters of the last segment), the query
\* as the sequence of its <<key, value>> pairs in the order written, and
\* the fragment.
\* a variant of _TRACKING_PARAMS that knows the utm_ parameters only
_TRACKING_PARAMS_utm ==
    {"utm_source", "utm_medium", "utm_campaign", "utm_term", "utm_content"}

_TRACKING_PARAMS ==
    {"utm_source", "utm_medium", "utm_campaign", "utm_term", "utm_content",
     "fbclid", "gclid", "ref", "refId", "trackingId", "trk"}

Url(path, query, fragment) ==
    [scheme |-> "https", netloc |-> "jobs.example", path |-> path,
     query |-> query, fragment |-> fragment]

\* the empty string
EmptyUrl ==
    [scheme |-> "", netloc |-> "", path |-> <<>>, query |-> <<>>, fragment |-> ""]

RECURSIVE LastSlash(_, _)
\* index of the last "/" among the first n tokens of a path, 0 when none
LastSlash(path, n) ==
    IF n = 0 \/ path[n] = "/" THEN n ELSE LastSlash(path, n - 1)

\* urlparse: the six components; the path is split at the first ";" after
\* its last "/" into path and params
urlparse(url) ==
    LET r    == LastSlash(url.path, Len(url.path))
        semi == {i \in (r + 1)..Len(url.path) : url.path[i] = ";"}
        cut  == IF semi = {} THEN Len(url.path) + 1
                ELSE CHOOSE i \in semi : \A j \in semi : i <= j
    IN  [scheme |-> url.scheme, netloc |-> url.netloc,
         path |-> SubSeq(url.path, 1, cut - 1),
         params |-> SubSeq(url.path, cut + 1, Len(url.path)),
         query |-> url.query, fragment |-> url.fragment]

\* urlunparse: params, when not empty, are written behind the path after ";"
urlunparse(parts) ==
    [scheme |-> parts.scheme, netloc |-> parts.netloc,
     path |-> IF parts.params # <<>> THEN parts.path \o <<";">> \o parts.params
              ELSE parts.path,
     query |-> parts.query, fragment |-> parts.fragment]

\* a variant of rstrip_slash that drops one trailing "/" only
rstrip_one_slash(path) ==
    IF path # <<>> /\ path[Len(path)] = "/"
    THEN SubSeq(path, 1, Len(path) - 1)
    ELSE path

RECURSIVE rstrip_slash(_)
\* str.rstrip("/"): drops every trailing "/" of the path
rstrip_slash(path) ==
    IF path # <<>> /\ path[Len(path)] = "/"
    THEN rstrip_slash(SubSeq(path, 1, Len(path) - 1))
    ELSE path

RECURSIVE SelectPairs(_, _)
SelectPairs(q, k) ==
    IF q = <<>> THEN <<>>
    ELSE IF Head(q)[1] = k THEN <<Head(q)>> \o SelectPairs(Tail(q), k)
         ELSE SelectPairs(Tail(q), k)

RECURSIVE KeyOrder(_, _)
\* keys of q in order of first occurrence
KeyOrder(q, seen) ==
    IF q = <<>> THEN <<>>
    ELSE IF Head(q)[1] \in seen THEN KeyOrder(Tail(q), seen)
         ELSE <<Head(q)[1]>> \o KeyOrder(Tail(q), seen \cup {Head(q)[1]})

\* parse_qs: pairs with a blank value are dropped (keep_blank_values is
\* off); the result is a dict key -> list of values, keys in order of
\* first occurrence.  Represented as the key order and the pairs by key.
parse_qs(query) ==
    LET kept == SelectSeq(query, LAMBDA kv : kv[2] # "")
    IN  [keys |-> KeyOrder(kept, {}), pairs |-> kept]

RECURSIVE urlencode(_, _)
\* urlencode(cleaned, doseq=True): for every key in dict order, every value
urlencode(keys, pairs) ==
    IF keys = <<>> THEN <<>>
    ELSE SelectPairs(pairs, Head(keys)) \o urlencode(Tail(keys), pairs)

normalize_url(url) ==
    IF url = EmptyUrl THEN EmptyUrl
    ELSE LET parsed  == urlparse(url)
             params  == parse_qs(parsed.query)
             cleaned == SelectSeq(params.keys, LAMBDA k : k \notin _TRACKING_PARAMS)
         IN  urlunparse(
               [scheme   |-> parsed.scheme,
                netloc   |-> parsed.netloc,
                path     |-> rstrip_slash(parsed.path),
                params   |-> parsed.params,
                query    |-> IF cleaned # <<>> THEN urlencode(cleaned, params.pairs) ELSE <<>>,
                fragment |-> ""])

\* ------------------------------------------- titles (rules/filters.py)
\* A text (title, description, ...) is a sequence of tokens: " " (one blank
\* between words) or a run of word characters; a word is a maximal run of
\* tokens other than " " ("Werkstudent", "in" spell the word Werkstudentin),
\* and every term of the patterns that occurs in a text is one token of it.
\* lower folds the letter case as re.IGNORECASE does (of the tokens that
\* spell a term of the patterns; the case of other tokens does not matter).
lower(w) ==
    CASE w \in {"Junior", "JUNIOR", "junior"} -> "junior"
      [] w \in {"Trainee", "TRAINEE", "trainee"} -> "trainee"
      [] w \in {"Praktikum", "praktikum"}      -> "praktikum"
      [] w \in {"Werkstudent", "werkstudent"}  -> "werkstudent"
      [] w \in {"Internship", "internship"}    -> "internship"
      [] w \in {"Working", "working"}          -> "working"
      [] w \in {"Student", "student"}          -> "student"
      [] w \in {"Vollzeit", "vollzeit"}        -> "vollzeit"
      [] w \in {"Teilzeit", "teilzeit"}        -> "teilzeit"
      [] w \in {"Remote", "REMOTE", "remote"}  -> "remote"
      [] w \in {"Hybrid", "hybrid"}            -> "hybrid"
      [] w \in {"Home", "home"}                -> "home"
      [] w \in {"Office", "office"}            -> "office"
      [] OTHER -> w

\* the token sequences the alternatives of the three EXCLUDE_PATTERNS
\* match (working\s*student with one or no blank)
EXCLUDE_PATTERNS ==
    {<<"internship">>, <<"praktikum">>, <<"werkstudent">>,
     <<"working", " ", "student">>, <<"working", "student">>,
     <<"pflichtpraktikum">>,
     <<"junior">>, <<"trainee">>, <<"azubi">>, <<"ausbildung">>,
     <<"unpaid">>, <<"volunteer">>, <<"ehrenamt">>}

\* the stretch of the text from token i on spells the alternative, in any
\* letter case
Spells(text, i, alternative) ==
    /\ i + Len(alternative) - 1 <= Len(text)
    /\ \A k \in 1..Len(alternative) : lower(text[i + k - 1]) = alternative[k]

\* pattern.search(text) for the patterns \b(...)\b: some stretch of the text
\* spells an alternative and begins and ends at a word boundary
search(patterns, text) ==
    \E i \in 1..Len(text) :
        /\ i = 1 \/ text[i - 1] = " "
        /\ \E alternative \in patterns :
              /\ Spells(text, i, alternative)
              /\ LET j == i + Len(alternative) - 1
                 IN  j = Len(text) \/ text[j + 1] = " "

\* a variant of matches_filters that searches the description as well
matches_filters_description(title, description, location, company) ==
    ~ (search(EXCLUDE_PATTERNS, title) \/ search(EXCLUDE_PATTERNS, description))

matches_filters(title, description, location, company) ==
    ~ search(EXCLUDE_PATTERNS, title)

\* ------------------------------- field normalizers (rules/common.py)
\* the outcome of a call: the exception that leaves it ("" when it
\* returns) and the value returned, <<>> for the empty string
Ok(value) == [raised |-> "", value |-> value]
Exc(exception) == [raised |-> exception, value |-> <<>>]

\* pattern.search(text) for a pattern without \b: some stretch of the text
\* spells an alternative
search_anywhere(patterns, text) ==
    \E i \in 1..Len(text) : \E alternative \in patterns : Spells(text, i, alternative)

\* _JOB_TYPE_MAP in dict order; the alternatives as token sequences
_JOB_TYPE_MAP ==
    <<[type |-> "full-time",
       anywhere |-> {<<"full", "-", "time">>, <<"full", " ", "time">>, <<"fulltime">>,
                     <<"vollzeit">>, <<"unbefristet">>}, bounded |-> {}],
      [type |-> "part-time",
       anywhere |-> {<<"part", "-", "time">>, <<"part", " ", "time">>, <<"parttime">>,
                     <<"teilzeit">>}, bounded |-> {}],
      [type |-> "contract",
       anywhere |-> {<<"contract">>, <<"befristet">>, <<"zeitarbeit">>}, bounded |-> {}],
      [type |-> "internship",
       anywhere |-> {<<"internship">>, <<"praktikum">>, <<"werkstudent">>}, bounded |-> {}],
      [type |-> "freelance",
       anywhere |-> {<<"freelance">>, <<"freiberuf">>}, bounded |-> {}]>>

\* _REMOTE_MAP in dict order: alternatives between \b and alternatives
\* that match anywhere
_REMOTE_MAP ==
    <<[type |-> "remote", bounded |-> {<<"remote">>},
       anywhere |-> {<<"home", " ", "office">>, <<"home", "office">>,
                     <<"100%", " ", "remote">>, <<"100%", "remote">>}],
      [type |-> "hybrid", bounded |-> {<<"hybrid">>},
       anywhere |-> {<<"teilweise", " ", "remote">>, <<"teilweise", "remote">>}],
      [type |-> "on-site",
       bounded |-> {<<"on", "-", "site">>, <<"on", " ", "site">>, <<"onsite">>},
       anywhere |-> {<<"vor", " ", "ort">>, <<"vor", "ort">>, <<"präsenz">>}]>>

RECURSIVE classify(_, _)
\* the loops of classify_job_type and classify_remote (common.py:134-139,
\* 150-155): the key of the first pattern that is found in raw, else ""
classify(map, raw) ==
    IF raw = <<>> \/ map = <<>> THEN Ok(<<>>)
    ELSE IF search(Head(map).bounded, raw) \/ search_anywhere(Head(map).anywhere, raw)
         THEN Ok(<<Head(map).type>>)
         ELSE classify(Tail(map), raw)

classify_job_type(raw) == classify(_JOB_TYPE_MAP, raw)

classify_remote(raw) == classify(_REMOTE_MAP, raw)

\* A raw date text is given by what the patterns of parse_posted_date find
\* in it: iso, the prefix matched by ^\d{4}-\d{2}-\d{2} ("" when none);
\* units, the entries of _RELATIVE_DATE_PATTERNS that match; num, the
\* number captured with the unit.
EmptyRaw == [iso |-> "", units |-> {}, num |-> 0]

\* the units of _RELATIVE_DATE_PATTERNS in list order
_RELATIVE_DATE_PATTERNS == <<"days", "weeks", "hours", "today", "yesterday">>

\* timedelta(days=n) raises OverflowError beyond 999999999 days; weeks
\* count 7 days, hours a 24th of a day
timedelta(unit, num) ==
    LET days == CASE unit = "days" -> num
                  [] unit = "weeks" -> IF num > 999999999 \div 7 THEN 1000000000
                                       ELSE 7 * num
                  [] unit = "hours" -> num \div 24
    IN  IF days > 999999999 THEN Exc("OverflowError") ELSE Ok(<<days>>)

\* now - delta: day number 1 is 0001-01-01, the earliest datetime
minus(now, days) ==
    IF now - days < 1 THEN Exc("OverflowError")
    ELSE Ok(<<"date", now - days>>)

\* common.py:188-195: the date num units before now
relative(now, unit, num) ==
    LET delta == timedelta(unit, num)
    IN  IF delta.raised # "" THEN delta ELSE minus(now, delta.value[1])

RECURSIVE parse_relative(_, _, _)
\* the loop of common.py:179-197 over the patterns left
parse_relative(patterns, raw, now) ==
    IF patterns = <<>> THEN Ok(<<>>)
    ELSE LET unit == Head(patterns)
         IN  IF unit \notin raw.units THEN parse_relative(Tail(patterns), raw, now)
             ELSE IF unit = "today" THEN minus(now, 0)
             ELSE IF unit = "yesterday" THEN minus(now, 1)
             ELSE relative(now, unit, raw.num)

\* parse_posted_date at the time now (a day number)
parse_posted_date(raw, now) ==
    IF raw = EmptyRaw THEN Ok(<<>>)
    ELSE IF raw.iso # "" THEN Ok(<<"iso", raw.iso>>)
    ELSE parse_relative(_RELATIVE_DATE_PATTERNS, raw, now)

\* whether a host has an opening and a closing square bracket
brackets(netloc) ==
    CASE netloc = "[::1"  -> [open |-> TRUE, close |-> FALSE]
      [] netloc = "::1]"  -> [open |-> FALSE, close |-> TRUE]
      [] netloc = "[::1]" -> [open |-> TRUE, close |-> TRUE]
      [] OTHER            -> [open |-> FALSE, close |-> FALSE]

\* urlparse raises ValueError ("Invalid IPv6 URL") for a host with one
\* square bracket but not the other
urlparse_raises(url) ==
    LET b == brackets(url.netloc)
    IN  (b.open /\ ~b.close) \/ (b.close /\ ~b.open)

\* a call of normalize_url (common.py:225-239) with its outcome
normalize_url_call(url) ==
    IF url = EmptyUrl THEN Ok(<<normalize_url(url)>>)
    ELSE IF urlparse_raises(url) THEN Exc("ValueError")
    ELSE Ok(<<normalize_url(url)>>)

\* ----------------------------------------------------- adapter outputs
U1  == Url(<<"/", "jobs", "/", "1">>, <<>>, "")
U1t == Url(<<"/", "jobs", "/", "1">>, <<<<"utm_source", "feed">>>>, "top")
U2  == Url(<<"/", "jobs", "/", "2", "/">>, <<<<"id", "7">>>>, "")
U3  == Url(<<"/", "jobs", "/", "3">>, <<>>, "")

\* JobListing: posted_date is "" (the default), an ISO date or other text
Listing(title, url) ==
    [title |-> title, url |-> url, description |-> <<>>, location |-> <<>>,
     company |-> <<"ACME">>, posted_date |-> ""]

\* the strings datetime.fromisoformat accepts
IsoDates == {"2026-02-28"}

Listings ==
    {[Listing(<<"Head", " ", "of", " ", "Data">>, U1) EXCEPT !.posted_date = "2026-02-28"],
     [Listing(<<"Head", " ", "of", " ", "Data">>, U1t) EXCEPT !.posted_date = "2026-02-28"],
     [Listing(<<"Data", " ", "Architect">>, U2) EXCEPT !.posted_date = "vor 3 Tagen"],
     Listing(<<"Junior", " ", "Analyst">>, U3)}

SeqsUpTo(S, n) == UNION {[1..k -> S] : k \in 0..n}

Batches == SeqsUpTo(Listings, MaxBatch)

Registry == <<"amazon", "apple", "google", "xing">>

\* targeted adapters: one named site, or the first sites of the registry
SiteLists ==
    {<<Registry[i]>> : i \in 1..Len(Registry)}
    \cup {SubSeq(Registry, 1, n) : n \in 1..MaxSites}

\* ------------------------------------------------------------------ state
VARIABLES
    jobs,      \* table jobs: sequence of committed rows [url, run_id]
    runs,      \* table scrape_runs: sequence of committed rows, id = index
    ctx,       \* per worker: the locals of run_scrape and its position
    sess,      \* per worker: its SQLAlchemy session
    engine,    \* per worker: its BrowserEngine
    pages,     \* per worker: indices of the adapters whose page is open
    obs,       \* per worker: what the environment did (adapter outcomes)
    lastCall,  \* the _insert_listings call that ended most recently
    offered,   \* normalized URLs handed to _insert_listings calls that ended
    deploy,    \* the workers that exist, and whether lastCall keeps the batch
    lab        \* a function or object used on its own (a function of the
               \* rules package, a BrowserEngine, one Xing.fetch): its
               \* arguments, the instance it is called on, the results so far

vars == <<jobs, runs, ctx, sess, engine, pages, obs, lastCall, offered, deploy, lab>>

\* ----------------------------------------------- db/models.py, session
\* ScrapeRun(status="running") with the column defaults
ScrapeRun ==
    [status |-> "running", completed_at |-> None, sites_scraped |-> 0,
     jobs_found |-> 0, jobs_matched |-> 0, jobs_new |-> 0, errors |-> None]

\* Job(run_id=..., url=normalized, posted_date=posted, ...)
Job(run_id, url, posted) == [url |-> url, run_id |-> run_id, posted_date |-> posted]

JobUrls(tbl) == {tbl[i].url : i \in 1..Len(tbl)}

\* get_session(): SessionLocal() with autoflush off: objects added to the
\* session stay pending (invisible to SELECT) until commit flushes them.
get_session == [state |-> "active", pending |-> <<>>]
NoSession == [state |-> "none", pending |-> <<>>]

\* select(Job.id).where(Job.url == normalized) sees committed rows only
Existing(tbl, normalized) == normalized \in JobUrls(tbl)

\* Job.url is unique: the flush at commit is rejected (IntegrityError) when
\* a pending url is already committed or occurs twice among the pending rows
UniqueOk(tbl, pending) ==
    /\ \A i \in 1..Len(pending) : pending[i].url \notin JobUrls(tbl)
    /\ \A i, j \in 1..Len(pending) : pending[i].url = pending[j].url => i = j

\* ------------------------------------------------- scraper/engine.py
\* BrowserEngine(): playwright / browser tell whether self._playwright and
\* self._browser are set (the driver and the browser process are held);
\* launched counts the browser processes launched, alive those of them not
\* closed, drivers the Playwright drivers started and not stopped, contexts
\* the isolated browser contexts created, stopped whether stop() has been
\* run to its end, error the exception the last call on the engine raised
NewEngine ==
    [playwright |-> FALSE, browser |-> FALSE, launched |-> 0, alive |-> 0,
     drivers |-> 0, contexts |-> 0, stopped |-> FALSE, error |-> ""]

\* BrowserEngine.start, line 27: a driver is started and assigned
start_playwright(e) ==
    [e EXCEPT !.playwright = TRUE, !.drivers = @ + 1, !.error = ""]

\* BrowserEngine.start, lines 28-30: a browser is launched and assigned
launch(e) ==
    [e EXCEPT !.browser = TRUE, !.launched = @ + 1, !.alive = @ + 1,
              !.error = ""]

\* a variant of new_page that hands out the context created first again
new_page_shared(e) ==
    IF ~e.browser THEN [e EXCEPT !.error = "RuntimeError"]
    ELSE [e EXCEPT !.contexts = IF @ = 0 THEN 1 ELSE @, !.error = ""]

\* a variant of new_page without the check of line 34
new_page_unchecked(e) == [e EXCEPT !.contexts = @ + 1, !.error = ""]

\* BrowserEngine.new_page (engine.py:32-40): RuntimeError when no browser is
\* held, else a new browser context, number contexts + 1, and a page in it
new_page(e) ==
    IF ~e.browser THEN [e EXCEPT !.error = "RuntimeError"]
    ELSE [e EXCEPT !.contexts = @ + 1, !.error = ""]

\* BrowserEngine.stop (engine.py:42-49): the browser held is closed, the
\* driver held is stopped
stop(e) ==
    [e EXCEPT !.alive = IF e.browser THEN @ - 1 ELSE @,
              !.browser = FALSE,
              !.drivers = IF e.playwright THEN @ - 1 ELSE @,
              !.playwright = FALSE,
              !.stopped = TRUE, !.error = ""]

\* ------------------------------------------------ scraper/pipeline.py
IdleCtx ==
    [pc |-> "idle", dry_run |-> FALSE, sites |-> <<>>, idx |-> 0,
     to_store |-> <<>>, k |-> 0, new_count |-> 0,
     total_found |-> 0, total_excluded |-> 0, total_new |-> 0,
     errors |-> <<>>, run |-> None]

\* What the environment did to a worker, kept apart from the locals of
\* run_scrape: attempts (sites a page was opened for), fetchFailed (indices
\* whose fetch_and_parse raised), returned / rejected / fresh (listings
\* returned, listings with an excluded title, accepted listings whose
\* normalized url was not stored when the adapter returned), insertCalls,
\* transitions (running -> completed writes), exit (why run_scrape raised),
\* jobs0 / runs0 (table sizes when the run began), overlap (the current
\* store call ran while another worker stored a common url), repeat (the
\* current store call was given the batch of the call that ended before it),
\* contextOf (the browser context of the page each attempted site was given),
\* navFailed (indices whose first page load failed, e.g. timed out)
IdleObs ==
    [attempts |-> <<>>, contextOf |-> <<>>, navFailed |-> {}, fetchFailed |-> {}, returned |-> 0, rejected |-> 0,
     fresh |-> 0, insertCalls |-> 0, transitions |-> 0, exit |-> "",
     jobs0 |-> 0, runs0 |-> 0, overlap |-> FALSE, repeat |-> FALSE]

NoCall == [proc |-> 0, batch |-> <<>>, outcome |-> "none", ret |-> 0,
           added |-> 0, repeat |-> FALSE, overlapped |-> FALSE]

\* a variant of OnAdapterError that leaves the loop at the first error
OnAdapterErrorBreak(c, e) ==
    [c EXCEPT !.errors = Append(@, [site |-> c.sites[c.idx], error |-> e]),
              !.idx = Len(c.sites), !.pc = "loop",
              !.to_store = <<>>, !.k = 0, !.new_count = 0]

\* the except clause of the adapter loop (pipeline.py:99-101): record the
\* error under the site's name and go on with the next site
OnAdapterError(c, e) ==
    [c EXCEPT !.errors = Append(@, [site |-> c.sites[c.idx], error |-> e]),
              !.pc = "loop",
              !.to_store = <<>>, !.k = 0, !.new_count = 0]

\* the list comprehension of pipeline.py:82-85
ToStore(listings) ==
    SelectSeq(listings,
              LAMBDA l : matches_filters(l.title, l.description, l.location, l.company))

\* a variant of SkipsStore that stores in a dry run too
SkipsStoreNever(dry_run) == FALSE

\* pipeline.py:90
SkipsStore(dry_run) == dry_run

\* a variant of FinalStatus that marks a run with adapter errors failed
FinalStatusFailed(errors) == IF errors = <<>> THEN "completed" ELSE "failed"

\* pipeline.py:106
FinalStatus(errors) == IF errors = <<>> THEN "completed" ELSE "completed"

\* a variant of SitesScraped that counts the sites without error only
SitesScrapedOk(c) == Len(c.sites) - Len(c.errors)

\* pipeline.py:107
SitesScraped(c) == Len(c.sites)

\* a variant of Finalized that writes the two totals into each other's column
FinalizedSwapped(r, c) ==
    [r EXCEPT !.completed_at = <<"now">>,
              !.status = FinalStatus(c.errors),
              !.sites_scraped = SitesScraped(c),
              !.jobs_found = c.total_new,
              !.jobs_new = c.total_found,
              !.errors = IF c.errors # <<>> THEN <<c.errors>> ELSE None]

\* pipeline.py:105-111 (jobs_excluded is no column of ScrapeRun: the
\* assignment of line 109 is not persisted)
Finalized(r, c) ==
    [r EXCEPT !.completed_at = <<"now">>,
              !.status = FinalStatus(c.errors),
              !.sites_scraped = SitesScraped(c),
              !.jobs_found = c.total_found,
              !.jobs_new = c.total_new,
              !.errors = IF c.errors # <<>> THEN <<c.errors>> ELSE None]

Site(c) == c.sites[c.idx]

TypeOK ==
    /\ \A p \in Procs : ctx[p].pc \in
          {"idle", "start", "launch", "loop", "fetch", "insert",
           "finalize", "done", "raised"}
    /\ \A i \in 1..Len(runs) : runs[i].status \in {"running", "completed", "failed"}

\* no function of the rules package is being called on its own
NoLab == [fn |-> "none", out |-> <<>>]

Init0 ==
    /\ jobs \in {<<>>, <<Job(None, normalize_url(U1), <<"2026-02-28">>)>>}
    /\ runs = <<>>
    /\ ctx = [p \in Procs |-> IdleCtx]
    /\ sess = [p \in Procs |-> NoSession]
    /\ engine = [p \in Procs |-> NewEngine]
    /\ pages = [p \in Procs |-> {}]
    /\ obs = [p \in Procs |-> IdleObs]
    /\ lastCall = NoCall
    /\ offered = {}

\* what run_scrape has after fetch_and_parse returned one of the batches:
\* the listings and the list to_store of pipeline.py:82-85
Filtered(batches) == {[listings |-> b, to_store |-> ToStore(b)] : b \in batches}
ReturnsAny == Filtered(Batches)
ReturnsAccepted ==
    Filtered(SeqsUpTo({l \in Listings : l.url \in {U1t, U2}}, MaxBatch))

\* the site lists a worker may target and the batches a site may return:
\* anything for a single worker; for two audited workers one site that
\* lists two accepted postings
Targets == IF deploy.audit THEN {<<Registry[1]>>} ELSE SiteLists
Returns == IF deploy.audit THEN ReturnsAccepted ELSE ReturnsAny

\* one worker, any list of targeted sites
Init ==
    /\ Init0
    /\ deploy = [procs |-> {1}, audit |-> FALSE]
    /\ lab = NoLab

\* two workers that may overlap; the batch of the last store call is kept
\* for comparison with the next (audit)
InitConc ==
    /\ Init0
    /\ deploy = [procs |-> Procs, audit |-> TRUE]
    /\ lab = NoLab

\* run_scrape, lines 42-65: build the site list, create the run record
Begin(p) ==
    /\ p \in deploy.procs
    /\ ctx[p].pc = "idle"
    /\ \E sl \in Targets, dry \in BOOLEAN :
         /\ ctx' = [ctx EXCEPT ![p] =
                [IdleCtx EXCEPT !.pc = "start", !.dry_run = dry, !.sites = sl,
                                !.run = IF dry THEN None ELSE <<Len(runs) + 1>>]]
         /\ sess' = [sess EXCEPT ![p] = IF dry THEN NoSession ELSE get_session]
         /\ runs' = IF dry THEN runs ELSE Append(runs, ScrapeRun)
    /\ obs' = [obs EXCEPT ![p].jobs0 = Len(jobs), ![p].runs0 = Len(runs)]
    /\ UNCHANGED <<jobs, engine, pages, lastCall, offered, deploy, lab>>

\* BrowserEngine.__aenter__ -> start, first await (engine.py:27)
StartPlaywright(p) ==
    /\ ctx[p].pc = "start"
    /\ \/ /\ engine' = [engine EXCEPT ![p] = start_playwright(@)]
          /\ ctx' = [ctx EXCEPT ![p].pc = "launch"]
          /\ UNCHANGED obs
       \/ \* async_playwright().start() raises: run_scrape raises
          /\ ctx' = [ctx EXCEPT ![p].pc = "raised"]
          /\ obs' = [obs EXCEPT ![p].exit = "engine"]
          /\ UNCHANGED engine
    /\ UNCHANGED <<jobs, runs, sess, pages, lastCall, offered, deploy, lab>>

\* BrowserEngine.start, second await (engine.py:28-30)
Launch(p) ==
    /\ ctx[p].pc = "launch"
    /\ \/ /\ engine' = [engine EXCEPT ![p] = launch(@)]
          /\ ctx' = [ctx EXCEPT ![p].pc = "loop"]
          /\ UNCHANGED obs
       \/ \* chromium.launch raises inside __aenter__: __aexit__ is not run
          /\ ctx' = [ctx EXCEPT ![p].pc = "raised"]
          /\ obs' = [obs EXCEPT ![p].exit = "engine"]
          /\ UNCHANGED engine
    /\ UNCHANGED <<jobs, runs, sess, pages, lastCall, offered, deploy, lab>>

\* for site in sites: ... page = await engine.new_page()  (pipeline.py:68-73)
NextSite(p) ==
    /\ ctx[p].pc = "loop"
    /\ ctx[p].idx < Len(ctx[p].sites)
    /\ engine[p].browser
    /\ ctx' = [ctx EXCEPT ![p].idx = @ + 1, ![p].pc = "fetch"]
    /\ engine' = [engine EXCEPT ![p] = new_page(@)]
    /\ pages' = [pages EXCEPT ![p] = @ \cup {ctx[p].idx + 1}]
    /\ obs' = [obs EXCEPT ![p].attempts = Append(@, ctx[p].sites[ctx[p].idx + 1]),
                          ![p].contextOf = Append(@, engine'[p].contexts)]
    /\ UNCHANGED <<jobs, runs, sess, lastCall, offered, deploy, lab>>

NormUrls(batch) == {normalize_url(batch[i].url) : i \in 1..Len(batch)}

\* the call that begins is given the batch of the call that ended last
Repeats(batch) == deploy.audit /\ lastCall.proc # 0 /\ lastCall.batch = batch

\* the record of an _insert_listings call that ends
CallEnd(p, batch, outcome, ret, added) ==
    [proc |-> p, batch |-> IF deploy.audit THEN batch ELSE <<>>,
     outcome |-> outcome, ret |-> ret, added |-> added,
     repeat |-> obs[p].repeat /\ ~obs[p].overlap,
     overlapped |-> obs[p].overlap]

\* whether fetch lets the exception of a failed page load leave the adapter:
\* amazon.py:40, apple.py:38 and google.py:37 await page.goto outside any
\* try; Xing.fetch wraps its whole search loop in try / except Exception
\* (xing.py:63-101) and returns the pages collected so far
fetch_propagates(site) == site # "xing"

\* accepted listings whose normalized url no committed row carries
Fresh(tbl, to_store) ==
    Cardinality({i \in 1..Len(to_store) :
                    normalize_url(to_store[i].url) \notin JobUrls(tbl)})

\* workers inside _insert_listings on a batch that shares a url with batch
Rivals(p, batch) ==
    {q \in Procs \ {p} :
        /\ ctx[q].pc = "insert"
        /\ NormUrls(ctx[q].to_store) \cap NormUrls(batch) # {}}

\* fetch_and_parse has returned listings, of which to_store pass the filter
\* (navFailed: after the first page load failed): close the page, count,
\* and in a normal run enter _insert_listings (pipeline.py:74-95)
Returned(p, listings, to_store, navFailed) ==
    /\ LET c == ctx[p]
           excluded == Len(listings) - Len(to_store)
           counted == [c EXCEPT !.total_found = @ + Len(listings),
                                !.total_excluded = @ + excluded]
           seen == [obs[p] EXCEPT !.navFailed = IF navFailed THEN @ \cup {c.idx} ELSE @,
                                  !.returned = @ + Len(listings),
                                  !.rejected = @ + excluded,
                                  !.fresh = @ + Fresh(jobs, to_store)]
       IN  /\ pages' = [pages EXCEPT ![p] = @ \ {c.idx}]
           /\ IF SkipsStore(c.dry_run)
              THEN /\ ctx' = [ctx EXCEPT ![p] = [counted EXCEPT !.pc = "loop"]]
                   /\ obs' = [obs EXCEPT ![p] = seen]
                   /\ UNCHANGED <<lastCall, offered>>
              ELSE IF sess[p].state = "active"
              THEN /\ ctx' = [ctx EXCEPT ![p] =
                          [counted EXCEPT !.pc = "insert", !.to_store = to_store,
                                          !.k = 0, !.new_count = 0]]
                   /\ obs' = [q \in Procs |->
                          IF q = p
                          THEN [seen EXCEPT !.insertCalls = @ + 1,
                                            !.overlap = Rivals(p, to_store) # {},
                                            !.repeat = Repeats(to_store)]
                          ELSE IF q \in Rivals(p, to_store)
                               THEN [obs[q] EXCEPT !.overlap = TRUE]
                               ELSE obs[q]]
                   /\ UNCHANGED <<lastCall, offered>>
              ELSE IF sess[p].state = "none"
              THEN \* session is None: the call is entered and fails at
                   \* session.execute (AttributeError) on its first listing
                   /\ ctx' = [ctx EXCEPT ![p] =
                          IF to_store = <<>> THEN [counted EXCEPT !.pc = "loop"]
                          ELSE OnAdapterError(counted, "AttributeError")]
                   /\ obs' = [obs EXCEPT ![p] = [seen EXCEPT !.insertCalls = @ + 1]]
                   /\ lastCall' = IF to_store = <<>>
                                  THEN CallEnd(p, to_store, "returned", 0, 0)
                                  ELSE CallEnd(p, to_store, "raised", 0, 0)
                   /\ offered' = offered \cup NormUrls(to_store)
              ELSE \* the session awaits rollback: evaluating the argument run.id
                   \* (line 95) refreshes run and raises PendingRollbackError
                   \* before _insert_listings is entered; caught by the loop
                   /\ ctx' = [ctx EXCEPT ![p] =
                          OnAdapterError(counted, "PendingRollbackError")]
                   /\ obs' = [obs EXCEPT ![p] = seen]
                   /\ UNCHANGED <<lastCall, offered>>
    /\ UNCHANGED <<jobs, runs, sess, engine, deploy, lab>>

\* the first page load of site.fetch fails (navigation timeout): the
\* exception leaves fetch_and_parse and is caught by the loop (pipeline.py:74,
\* 99-101), or fetch swallows it and returns the empty page list joined,
\* which parse turns into no listings (base.py:89-91)
FetchRaises(p) ==
    /\ ctx[p].pc = "fetch"
    /\ IF fetch_propagates(Site(ctx[p]))
       THEN /\ ctx' = [ctx EXCEPT ![p] = OnAdapterError(@, "fetch failed")]
            /\ obs' = [obs EXCEPT ![p].fetchFailed = @ \cup {ctx[p].idx},
                                  ![p].navFailed = @ \cup {ctx[p].idx}]
            /\ UNCHANGED <<jobs, runs, sess, engine, pages, lastCall, offered, deploy, lab>>
       ELSE Returned(p, <<>>, ToStore(<<>>), TRUE)

\* site.fetch_and_parse returns the listings of the pages it loaded
FetchReturns(p) ==
    /\ ctx[p].pc = "fetch"
    /\ \E r \in Returns : Returned(p, r.listings, r.to_store, FALSE)

\* a variant of Posted that lets the ValueError of fromisoformat leave
PostedStrict(listing) ==
    [raised |-> listing.posted_date # "" /\ listing.posted_date \notin IsoDates,
     value  |-> IF listing.posted_date \in IsoDates
                THEN <<listing.posted_date>> ELSE None]

\* pipeline.py:135-140: posted stays None when posted_date is empty or
\* fromisoformat raises ValueError (caught); raised tells whether an
\* exception leaves the block
Posted(listing) ==
    [raised |-> FALSE,
     value  |-> IF listing.posted_date # "" /\ listing.posted_date \in IsoDates
                THEN <<listing.posted_date>> ELSE None]

\* one iteration of the loop of _insert_listings (pipeline.py:126-158)
InsertStep(p) ==
    /\ ctx[p].pc = "insert"
    /\ ctx[p].k < Len(ctx[p].to_store)
    /\ LET c == ctx[p]
           listing == c.to_store[c.k + 1]
           normalized == normalize_url(listing.url)
           posted == Posted(listing)
       IN  IF Existing(jobs, normalized)
           THEN /\ ctx' = [ctx EXCEPT ![p].k = @ + 1]
                /\ UNCHANGED <<sess, obs, lastCall, offered>>
           ELSE IF posted.raised
           THEN \* the exception leaves _insert_listings; caught by the loop
                /\ ctx' = [ctx EXCEPT ![p] = OnAdapterError(@, "ValueError")]
                /\ lastCall' = CallEnd(p, c.to_store, "raised", 0, 0)
                /\ offered' = offered \cup NormUrls(c.to_store)
                /\ obs' = [obs EXCEPT ![p].overlap = FALSE, ![p].repeat = FALSE]
                /\ UNCHANGED sess
           ELSE /\ ctx' = [ctx EXCEPT ![p].k = @ + 1, ![p].new_count = @ + 1]
                /\ sess' = [sess EXCEPT ![p].pending =
                                Append(@, Job(c.run, normalized, posted.value))]
                /\ UNCHANGED <<obs, lastCall, offered>>
    /\ UNCHANGED <<jobs, runs, engine, pages, deploy, lab>>

\* the end of _insert_listings (pipeline.py:160-162) and its return into
\* run_scrape (pipeline.py:95-101)
InsertEnd(p) ==
    /\ ctx[p].pc = "insert"
    /\ ctx[p].k = Len(ctx[p].to_store)
    /\ LET c == ctx[p]
       IN  IF c.new_count = 0 \/ UniqueOk(jobs, sess[p].pending)
           THEN \* commit succeeds (or is skipped): return new_count
                /\ jobs' = jobs \o sess[p].pending
                /\ sess' = [sess EXCEPT ![p].pending = <<>>]
                /\ ctx' = [ctx EXCEPT ![p].total_new = @ + c.new_count,
                                      ![p].pc = "loop", ![p].to_store = <<>>,
                                      ![p].k = 0, ![p].new_count = 0]
                /\ lastCall' = CallEnd(p, c.to_store, "returned", c.new_count,
                                       Len(sess[p].pending))
           ELSE \* IntegrityError at the flush: the transaction is rolled
                \* back and the session refuses further work until rollback()
                /\ jobs' = jobs
                /\ sess' = [sess EXCEPT ![p] = [state |-> "deactive", pending |-> <<>>]]
                /\ ctx' = [ctx EXCEPT ![p] = OnAdapterError(@, "IntegrityError")]
                /\ lastCall' = CallEnd(p, c.to_store, "raised", 0, 0)
    /\ offered' = offered \cup NormUrls(ctx[p].to_store)
    /\ obs' = [obs EXCEPT ![p].overlap = FALSE, ![p].repeat = FALSE]
    /\ UNCHANGED <<runs, engine, pages, deploy, lab>>

\* the loop is exhausted: BrowserEngine.__aexit__ -> stop (engine.py:42-56)
LeaveEngine(p) ==
    /\ ctx[p].pc = "loop"
    /\ ctx[p].idx = Len(ctx[p].sites)
    /\ engine' = [engine EXCEPT ![p] = stop(@)]
    /\ pages' = [pages EXCEPT ![p] = {}]
    /\ ctx' = [ctx EXCEPT ![p].pc = "finalize"]
    /\ UNCHANGED <<jobs, runs, sess, obs, lastCall, offered, deploy, lab>>

\* Finalize run (pipeline.py:103-120)
Finalize(p) ==
    /\ ctx[p].pc = "finalize"
    /\ LET c == ctx[p]
       IN  IF c.run # None /\ sess[p].state # "none"
           THEN IF sess[p].state = "active"
                THEN /\ runs' = [runs EXCEPT ![c.run[1]] = Finalized(@, c)]
                     /\ sess' = [sess EXCEPT ![p].state = "closed"]
                     /\ obs' = [obs EXCEPT ![p].transitions =
                                   @ + (IF runs[c.run[1]].status = "running"
                                           /\ runs'[c.run[1]].status = "completed"
                                        THEN 1 ELSE 0)]
                     /\ ctx' = [ctx EXCEPT ![p].pc = "done"]
                ELSE \* session.commit() raises PendingRollbackError
                     /\ ctx' = [ctx EXCEPT ![p].pc = "raised"]
                     /\ obs' = [obs EXCEPT ![p].exit = "commit"]
                     /\ UNCHANGED <<runs, sess>>
           ELSE /\ ctx' = [ctx EXCEPT ![p].pc = "done"]
                /\ UNCHANGED <<runs, sess, obs>>
    /\ UNCHANGED <<jobs, engine, pages, lastCall, offered, deploy, lab>>

\* asyncio cancellation arrives while run_scrape awaits
Cancel(p) ==
    /\ ctx[p].pc \in {"start", "launch", "fetch"}
    /\ IF ctx[p].pc = "fetch"
       THEN \* inside async with: __aexit__ stops the engine
            /\ engine' = [engine EXCEPT ![p] = stop(@)]
            /\ pages' = [pages EXCEPT ![p] = {}]
       ELSE \* inside __aenter__: __aexit__ is not run
            UNCHANGED <<engine, pages>>
    /\ ctx' = [ctx EXCEPT ![p].pc = "raised"]
    /\ obs' = [obs EXCEPT ![p].exit = "cancel"]
    /\ UNCHANGED <<jobs, runs, sess, lastCall, offered, deploy, lab>>

Next ==
    \E p \in Procs :
        \/ Begin(p)
        \/ StartPlaywright(p)
        \/ Launch(p)
        \/ NextSite(p)
        \/ FetchRaises(p)
        \/ FetchReturns(p)
        \/ InsertStep(p)
        \/ InsertEnd(p)
        \/ LeaveEngine(p)
        \/ Finalize(p)
        \/ Cancel(p)

Spec == Init /\ [][Next]_vars

SpecConc == InitConc /\ [][Next]_vars

\* ------------------------------------------------ the rules package alone
\* Calls of normalize_url, matches_filters and an adapter's parse on
\* arguments drawn from small sets, with no scrape run going on.

\* query parameters: the keys utm_source and ref are tracking parameters
TrackingPairs == {<<"utm_source", "feed">>, <<"ref", "mail">>}
PlainPairs == {<<"id", "7">>, <<"id", "8">>, <<"page", "2">>, <<"q", "">>}
Queries == SeqsUpTo(TrackingPairs \cup PlainPairs, MaxQuery)

Paths ==
    {<<>>, <<"/">>,
     <<"/", "jobs", "/", "1">>,
     <<"/", "jobs", "/", "1", "/">>,
     <<"/", "jobs", "/", "1", "/", "/">>,
     <<"/", "jobs", "/", "1", ";", "v">>,
     <<"/", "jobs", "/", "1", "/", ";", "v">>,
     <<"/", "jobs", "/", "1", ";", "v", "/">>}

Fragments == {"", "top"}

Urls == {EmptyUrl} \cup {Url(p, q, f) : p \in Paths, q \in Queries, f \in Fragments}

\* ways in which a second URL differs from a first: one more query pair at
\* some position, another fragment, one more "/" at the end of the path
Edits ==
    {[kind |-> "pair", pos |-> i, pair |-> kv, fragment |-> ""] :
        i \in 0..MaxQuery, kv \in TrackingPairs \cup PlainPairs}
    \cup {[kind |-> "fragment", pos |-> 0, pair |-> <<"", "">>, fragment |-> f] :
            f \in Fragments}
    \cup {[kind |-> "slash", pos |-> 0, pair |-> <<"", "">>, fragment |-> ""]}

Edit(u, e) ==
    CASE e.kind = "pair" ->
            [u EXCEPT !.query = SubSeq(@, 1, e.pos) \o <<e.pair>>
                                   \o SubSeq(@, e.pos + 1, Len(@))]
      [] e.kind = "fragment" -> [u EXCEPT !.fragment = e.fragment]
      [] e.kind = "slash" ->
            urlunparse([urlparse(u) EXCEPT !.path = @ \o <<"/">>])

Titles ==
    {<<>>,
     <<"Head", " ", "of", " ", "Data">>,
     <<"Data", " ", "Architect">>,
     <<"Junior", " ", "Analyst">>,
     <<"JUNIOR", " ", "Analyst">>,
     <<"Senior", " ", "trainee">>,
     <<"Junior", "professor", " ", "Data">>,
     <<"Werkstudent", "in", " ", "BI">>,
     <<"Praktikum", "s", "platz">>,
     <<"Trainee", "programm", " ", "Analytics">>,
     <<"Internship", " ", "Data">>,
     <<"Working", " ", "Student", " ", "AI">>}

\* description, location and company of a listing
Rests ==
    [description : {<<>>, <<"mentoring", " ", "junior", " ", "staff">>},
     location : {<<>>, <<"Berlin">>, <<"fully", " ", "remote">>},
     company : {<<"ACME">>, <<"Trainee", " ", "GmbH">>}]

WithRest(title, url, rest) ==
    [Listing(title, url) EXCEPT !.description = rest.description,
                                !.location = rest.location,
                                !.company = rest.company]

\* a listing card of a result page: the text of its title element and the
\* href of its link (path and query), either of which may be missing; and
\* where the extraction from a card that has both raises: nowhere (""),
\* while title and link are read ("title"), or while the further fields are
\* read and the listing is built ("fields")
NoHref == [path |-> <<>>, query |-> <<>>]
Hrefs ==
    {NoHref,
     [path |-> <<"/", "jobs", "/", "1">>, query |-> <<>>],
     [path |-> <<"/", "jobs", "/", "1">>, query |-> <<<<"hl", "de">>>>],
     [path |-> <<"/", "jobs", "/", "2">>, query |-> <<>>]}
Cards ==
    [title : {<<>>, <<"Data", " ", "Lead">>}, href : Hrefs, raises : {""}]
    \cup [title : {<<"Data", " ", "Lead">>}, href : Hrefs \ {NoHref},
          raises : {"title", "fields"}]
Htmls == SeqsUpTo(Cards, MaxCards)

\* urljoin(base, href) of an href that is an absolute path
urljoin(href) == Url(href.path, href.query, "")

RECURSIVE parse_cards(_, _, _, _)
\* the loop over job_cards of parse: amazon.py:94-135, apple.py:56-105,
\* google.py:54-104 (the query is cut off the url), xing.py:117-179 (a url
\* in self.seen_urls is skipped, every url that passes is added to it
\* before the further fields are read); an exception raised for a card is
\* caught and the loop continues with the next card
parse_cards(site, seen_urls, job_cards, listings) ==
    IF job_cards = <<>> THEN [listings |-> listings, seen_urls |-> seen_urls]
    ELSE LET card == Head(job_cards)
             url  == IF site = "google" THEN Url(card.href.path, <<>>, "")
                     ELSE urljoin(card.href)
             seen == IF site = "xing" THEN seen_urls \cup {url} ELSE seen_urls
         IN  IF card.raises = "title"
             THEN parse_cards(site, seen_urls, Tail(job_cards), listings)
             ELSE IF card.title = <<>> \/ card.href = NoHref
             THEN parse_cards(site, seen_urls, Tail(job_cards), listings)
             ELSE IF site = "xing" /\ url \in seen_urls
             THEN parse_cards(site, seen_urls, Tail(job_cards), listings)
             ELSE IF card.raises = "fields"
             THEN parse_cards(site, seen, Tail(job_cards), listings)
             ELSE parse_cards(site, seen, Tail(job_cards),
                              Append(listings, Listing(card.title, url)))

\* site.parse(html) on an instance whose seen_urls is given: the listings
\* returned and the seen_urls of the instance afterwards
parse(site, seen_urls, html) == parse_cards(site, seen_urls, html, <<>>)

\* texts handed to classify_job_type and classify_remote
FieldTexts ==
    {<<>>, <<"Vollzeit">>, <<"Teilzeit", " ", "Remote">>, <<"befristet">>,
     <<"Werkstudent", "in">>, <<"Remote", "work">>, <<"Home", " ", "Office">>,
     <<"Hybrid">>, <<"nach", " ", "Absprache">>}

\* raw date texts: empty, an ISO date, relative dates with a number of up
\* to ten digits, today / yesterday, and text no pattern matches
RawDates ==
    {EmptyRaw, [iso |-> "2026-02-28", units |-> {}, num |-> 0],
     [iso |-> "", units |-> {}, num |-> 0],
     [iso |-> "", units |-> {"today"}, num |-> 0],
     [iso |-> "", units |-> {"yesterday"}, num |-> 0]}
    \cup {[iso |-> "", units |-> u, num |-> n] :
            u \in {{"days"}, {"weeks"}, {"hours"}, {"days", "today"}},
            n \in {0, 3, 800000, 18000000, 1000000000}}

\* datetime.now() as a day number: 2026-11-01
Nows == {739921}

\* URL strings with a host in square brackets, whole or not
Netlocs == {"jobs.example", "[::1]", "[::1", "::1]"}
AnyUrls ==
    {EmptyUrl} \cup
    {[Url(p, q, "") EXCEPT !.netloc = n] :
        p \in {<<>>, <<"/", "jobs", "/", "1", "/">>},
        q \in {<<>>, <<<<"utm_source", "feed">>>>}, n \in Netlocs}

\* the registries _discover_sites can build: the adapters whose module
\* could be imported and that are not disabled (registry.py:34-49)
Registries == SUBSET {Registry[i] : i \in 1..Len(Registry)}

\* the names get_site is asked for: the adapters and two unknown names
Names == {Registry[i] : i \in 1..Len(Registry)} \cup {"linkedin", "Xing"}

\* sorted(registry.keys()): Registry lists the names in alphabetical order
sorted(registry) == SelectSeq(Registry, LAMBDA n : n \in registry)

\* a variant of available that lists the company adapters only
available_companies(registry) == sorted(registry \ {"xing"})

\* the names the error message of get_site lists (registry.py:66)
available(registry) == sorted(registry)

\* registry[name](search_config=...): instance number id of the adapter
\* class registered under the name (base.py:32-38, xing.py:37-46)
NewSite(name, id) == [name |-> name, id |-> id, seen_urls |-> {}]

\* get_site(name) when instances adapter instances exist (registry.py:62-68)
get_site(registry, name, instances) ==
    IF name \notin registry
    THEN [name |-> name, raised |-> "ValueError",
          message |-> <<"Unknown site", name, "Available", available(registry)>>,
          instance |-> None, instances |-> instances]
    ELSE [name |-> name, raised |-> "", message |-> <<>>,
          instance |-> <<NewSite(name, instances + 1)>>,
          instances |-> instances + 1]

InitRules ==
    /\ Init0
    /\ jobs = <<>>
    /\ deploy = [procs |-> {}, audit |-> FALSE]
    /\ \/ \E u \in Urls, e \in Edits :
             /\ e.pos <= Len(u.query)
             /\ lab = [fn |-> "normalize_url", u |-> u, edit |-> e, out |-> <<>>]
       \/ \E t \in Titles, a \in Rests, b \in Rests :
             lab = [fn |-> "matches_filters", title |-> t, a |-> a, b |-> b,
                    out |-> <<>>]
       \/ \E site \in {Registry[i] : i \in 1..Len(Registry)}, html \in Htmls :
             \* get_site: a new adapter instance (xing.py:46)
             lab = [fn |-> "parse", site |-> site, html |-> html,
                    seen_urls |-> {}, out |-> <<>>]
       \/ \E raw \in RawDates, now \in Nows :
             lab = [fn |-> "parse_posted_date", raw |-> raw, now |-> now, out |-> <<>>]
       \/ \E raw \in FieldTexts :
             lab = [fn |-> "classify", raw |-> raw, out |-> <<>>]
       \/ \E u \in AnyUrls :
             lab = [fn |-> "normalize_url of any string", u |-> u, out |-> <<>>]
       \/ \E registry \in Registries :
             lab = [fn |-> "get_site", registry |-> registry, instances |-> 0,
                    out |-> <<>>]

\* normalize_url of a URL and of the URL that differs from it by the edit
Normalize ==
    /\ lab.fn = "normalize_url" /\ lab.out = <<>>
    /\ lab' = [lab EXCEPT !.out = <<normalize_url(lab.u),
                                    normalize_url(Edit(lab.u, lab.edit))>>]
    /\ UNCHANGED <<jobs, runs, ctx, sess, engine, pages, obs, lastCall, offered, deploy>>

\* normalize_url of the two results
Renormalize ==
    /\ lab.fn = "normalize_url" /\ Len(lab.out) = 2
    /\ lab' = [lab EXCEPT !.out = @ \o <<normalize_url(@[1]), normalize_url(@[2])>>]
    /\ UNCHANGED <<jobs, runs, ctx, sess, engine, pages, obs, lastCall, offered, deploy>>

\* matches_filters of two listings with one title, and the comprehension
\* of pipeline.py:82-85 on the two
Filter ==
    /\ lab.fn = "matches_filters" /\ lab.out = <<>>
    /\ LET l1 == WithRest(lab.title, U1, lab.a)
           l2 == WithRest(lab.title, U2, lab.b)
       IN  lab' = [lab EXCEPT !.out =
                <<[first  |-> matches_filters(l1.title, l1.description, l1.location, l1.company),
                   second |-> matches_filters(l2.title, l2.description, l2.location, l2.company),
                   to_store |-> ToStore(<<l1, l2>>)]>>]
    /\ UNCHANGED <<jobs, runs, ctx, sess, engine, pages, obs, lastCall, offered, deploy>>

\* parse called on the adapter instance with the same html, up to twice
Parse ==
    /\ lab.fn = "parse" /\ Len(lab.out) < 2
    /\ LET r == parse(lab.site, lab.seen_urls, lab.html)
       IN  lab' = [lab EXCEPT !.out = Append(@, r.listings),
                              !.seen_urls = r.seen_urls]
    /\ UNCHANGED <<jobs, runs, ctx, sess, engine, pages, obs, lastCall, offered, deploy>>

\* get_site called with some name, up to twice on one registry
GetSite ==
    /\ lab.fn = "get_site" /\ Len(lab.out) < 2
    /\ \E name \in Names :
         LET r == get_site(lab.registry, name, lab.instances)
         IN  lab' = [lab EXCEPT !.out = Append(@, r), !.instances = r.instances]
    /\ UNCHANGED <<jobs, runs, ctx, sess, engine, pages, obs, lastCall, offered, deploy>>

\* parse_posted_date(raw)
ParsePostedDate ==
    /\ lab.fn = "parse_posted_date" /\ lab.out = <<>>
    /\ lab' = [lab EXCEPT !.out = <<parse_posted_date(lab.raw, lab.now)>>]
    /\ UNCHANGED <<jobs, runs, ctx, sess, engine, pages, obs, lastCall, offered, deploy>>

\* classify_job_type(raw) and classify_remote(raw)
Classify ==
    /\ lab.fn = "classify" /\ lab.out = <<>>
    /\ lab' = [lab EXCEPT !.out = <<[job_type |-> classify_job_type(lab.raw),
                                     remote |-> classify_remote(lab.raw)]>>]
    /\ UNCHANGED <<jobs, runs, ctx, sess, engine, pages, obs, lastCall, offered, deploy>>

\* normalize_url(url) of a string that need not be a well-formed URL
NormalizeAny ==
    /\ lab.fn = "normalize_url of any string" /\ lab.out = <<>>
    /\ lab' = [lab EXCEPT !.out = <<normalize_url_call(lab.u)>>]
    /\ UNCHANGED <<jobs, runs, ctx, sess, engine, pages, obs, lastCall, offered, deploy>>

NextRules ==
    \/ Normalize \/ Renormalize \/ Filter \/ Parse \/ GetSite
    \/ ParsePostedDate \/ Classify \/ NormalizeAny

SpecRules == InitRules /\ [][NextRules]_vars

\* --------------------------------------------- a BrowserEngine on its own
\* start(), new_page() and stop() called on one engine in any order, up to
\* MaxCalls calls; lab tells the call made last.
InitEngine ==
    /\ Init0
    /\ jobs = <<>>
    /\ deploy = [procs |-> {}, audit |-> FALSE]
    /\ lab = [fn |-> "engine", calls |-> 0, last |-> "none", started |-> FALSE]

Called(name) ==
    [lab EXCEPT !.calls = @ + 1, !.last = name, !.started = engine[1].browser]

\* await engine.start(): either await may raise
EngineStart ==
    /\ lab.fn = "engine" /\ lab.calls < MaxCalls
    /\ \/ engine' = [engine EXCEPT ![1] = launch(start_playwright(@))]
       \/ engine' = [engine EXCEPT ![1] = [start_playwright(@) EXCEPT !.error = "launch"]]
       \/ engine' = [engine EXCEPT ![1].error = "driver"]
    /\ lab' = Called("start")
    /\ UNCHANGED <<jobs, runs, ctx, sess, pages, obs, lastCall, offered, deploy>>

\* await engine.new_page()
EngineNewPage ==
    /\ lab.fn = "engine" /\ lab.calls < MaxCalls
    /\ engine' = [engine EXCEPT ![1] = new_page(@)]
    /\ lab' = Called("new_page")
    /\ UNCHANGED <<jobs, runs, ctx, sess, pages, obs, lastCall, offered, deploy>>

\* await engine.stop()
EngineStop ==
    /\ lab.fn = "engine" /\ lab.calls < MaxCalls
    /\ engine' = [engine EXCEPT ![1] = stop(@)]
    /\ lab' = Called("stop")
    /\ UNCHANGED <<jobs, runs, ctx, sess, pages, obs, lastCall, offered, deploy>>

NextEngine == EngineStart \/ EngineNewPage \/ EngineStop

SpecEngine == InitEngine /\ [][NextEngine]_vars

\* ------------------------------------- Xing.fetch (aggregators/xing.py)
NRW_CITIES == <<"Cologne", "Dusseldorf", "Dortmund", "Essen", "Bonn">>
KEYWORDS == <<"data", "ai", "analytics">>
MAX_LOADS == 5

\* xing.py:55-57: one search per city, then the full-remote search
searches ==
    [i \in 1..Len(NRW_CITIES) |-> <<"location", NRW_CITIES[i]>>]
    \o <<<<"workplace", "full-remote">>>>

\* xing.py:65, 70: self.max_searches and search_count >= self.max_searches
limit_reached(max_searches, search_count) ==
    max_searches # None /\ max_searches[1] # 0 /\ search_count >= max_searches[1]

\* the head of the loop over searches, about to take search number s
search_head(f, s) ==
    IF s > Len(searches) \/ limit_reached(f.max_searches, f.search_count)
    THEN [f EXCEPT !.pc = "return"]
    ELSE [f EXCEPT !.pc = "goto", !.s = s, !.k = 1, !.loads = 0]

\* the head of the loop over KEYWORDS, about to take keyword number k of
\* search s; when the loop ends or breaks, the loop over searches goes on
keyword_head(f, s, k) ==
    IF k > Len(KEYWORDS) \/ limit_reached(f.max_searches, f.search_count)
    THEN search_head(f, s + 1)
    ELSE [f EXCEPT !.pc = "goto", !.s = s, !.k = k, !.loads = 0]

\* xing.py:93-95: the break in the except clause leaves the loop over
\* KEYWORDS, past search_count += 1
pagination_error(f) == search_head(f, f.s + 1)

\* Xing(search_config).fetch(page) about to start: gotos counts the
\* page.goto calls, first_pages holds the <<search, keyword>> pairs whose
\* first result page was appended to html_parts, html_parts counts the parts
InitXing ==
    /\ Init0
    /\ jobs = <<>>
    /\ deploy = [procs |-> {}, audit |-> FALSE]
    /\ \E max_searches \in {None} \cup {<<n>> : n \in 1..MaxSearches} :
         lab = search_head([fn |-> "fetch", max_searches |-> max_searches,
                            pc |-> "start", s |-> 0, k |-> 0, loads |-> 0,
                            search_count |-> 0, gotos |-> 0, first_pages |-> {},
                            html_parts |-> 0, goto_failed |-> FALSE,
                            pagination_errors |-> 0], 1)

\* xing.py:80-83: page.goto raises (outer except, lines 98-101) or the
\* page loads and its content is appended
XingGoto ==
    /\ lab.fn = "fetch" /\ lab.pc = "goto"
    /\ \/ lab' = [lab EXCEPT !.gotos = @ + 1, !.goto_failed = TRUE, !.pc = "return"]
       \/ lab' = [lab EXCEPT !.gotos = @ + 1, !.pc = "paginate", !.loads = 0,
                             !.html_parts = @ + 1,
                             !.first_pages = @ \cup {<<lab.s, lab.k>>}]
    /\ UNCHANGED <<jobs, runs, ctx, sess, engine, pages, obs, lastCall, offered, deploy>>

\* xing.py:86-92: the "Mehr" button shows and one more page is appended
XingMehr ==
    /\ lab.fn = "fetch" /\ lab.pc = "paginate" /\ lab.loads < MAX_LOADS - 1
    /\ lab' = [lab EXCEPT !.loads = @ + 1, !.html_parts = @ + 1]
    /\ UNCHANGED <<jobs, runs, ctx, sess, engine, pages, obs, lastCall, offered, deploy>>

\* xing.py:88, 93-95: waiting for the "Mehr" button raises
XingPaginationError ==
    /\ lab.fn = "fetch" /\ lab.pc = "paginate" /\ lab.loads < MAX_LOADS - 1
    /\ lab' = pagination_error([lab EXCEPT !.pagination_errors = @ + 1])
    /\ UNCHANGED <<jobs, runs, ctx, sess, engine, pages, obs, lastCall, offered, deploy>>

\* xing.py:97: all loads of the search are done
XingSearchDone ==
    /\ lab.fn = "fetch" /\ lab.pc = "paginate" /\ lab.loads = MAX_LOADS - 1
    /\ lab' = keyword_head([lab EXCEPT !.search_count = @ + 1], lab.s, lab.k + 1)
    /\ UNCHANGED <<jobs, runs, ctx, sess, engine, pages, obs, lastCall, offered, deploy>>

NextXing == XingGoto \/ XingMehr \/ XingPaginationError \/ XingSearchDone

SpecXing == InitXing /\ [][NextXing]_vars

\* =================================================================== claims
Ended(p) == ctx[p].pc \in {"done", "raised"}
LoopOver(p) ==
    \/ ctx[p].pc \in {"finalize", "done"}
    \/ ctx[p].pc = "raised" /\ obs[p].exit = "commit"
RunRow(p) == runs[ctx[p].run[1]]
Entries(errors, site, e) ==
    {j \in 1..Len(errors) : errors[j].site = site /\ errors[j].error = e}
RowsOf(run) == {i \in 1..Len(jobs) : jobs[i].run_id = run}
RowsWith(u) == {i \in 1..Len(jobs) : jobs[i].url = u}

\* C1: adapter failures do not abort the run: the sites are attempted once
\* each in list order, a run that ends without engine failure or
\* cancellation has attempted every targeted site, also those after a site
\* whose fetch_and_parse raised, and every such site has exactly one
\* {site, error} entry in the error list.
C1_FailureIsolation ==
    \A p \in Procs :
        /\ obs[p].attempts = SubSeq(ctx[p].sites, 1, Len(obs[p].attempts))
        /\ LoopOver(p) => obs[p].attempts = ctx[p].sites
        /\ Ended(p) /\ obs[p].exit \notin {"engine", "cancel"}
              => obs[p].attempts = ctx[p].sites
        /\ \A i \in obs[p].fetchFailed :
              Cardinality(Entries(ctx[p].errors, ctx[p].sites[i], "fetch failed")) = 1
        /\ \A j \in 1..Len(ctx[p].errors) :
              ctx[p].errors[j].error = "fetch failed"
                 => \E i \in obs[p].fetchFailed : ctx[p].sites[i] = ctx[p].errors[j].site

\* C1 witness: a finished run of two sites whose first site raised in
\* fetch_and_parse and whose second site was still scraped and returned
C1_Witness ==
    \E p \in Procs :
        /\ ctx[p].pc = "done"
        /\ Len(ctx[p].sites) = 2
        /\ obs[p].fetchFailed = {1}
        /\ obs[p].attempts = ctx[p].sites
        /\ obs[p].returned > 0
        /\ Len(ctx[p].errors) = 1

\* C2: a finalized non-dry run is persisted as completed whatever adapters
\* failed, no run row ever carries the status failed, and a completed run
\* row never becomes running again.
C2_CompletedOnly ==
    /\ [](\A p \in Procs :
            /\ \A i \in 1..Len(runs) : runs[i].status \in {"running", "completed"}
            /\ ctx[p].pc = "done" /\ ~ctx[p].dry_run => RunRow(p).status = "completed")
    /\ [][\A i \in 1..Len(runs) :
            runs[i].status = "completed" => runs'[i].status = "completed"]_vars

\* C2 witness: a finalized run in which every targeted adapter failed
C2_Witness ==
    \E p \in Procs :
        /\ ctx[p].pc = "done" /\ ~ctx[p].dry_run
        /\ Len(ctx[p].sites) = 2
        /\ obs[p].fetchFailed = {1, 2}
        /\ RunRow(p).status = "completed"

\* C3 (as claimed): every run record created as running has become
\* completed, by exactly one running -> completed write, whenever run_scrape
\* has ended, whatever way it ended.
C3_Claim ==
    \A p \in Procs :
        Ended(p) /\ ctx[p].run # None
            => RunRow(p).status = "completed" /\ obs[p].transitions = 1

\* C4: the finalized summary: sites_scraped counts every targeted site,
\* jobs_found the listings returned, jobs_new the accepted listings whose
\* normalized url was not stored yet (which are the rows the run added),
\* errors has one entry per adapter that raised, status is completed.
C4_Summary ==
    \A p \in Procs :
        ctx[p].pc = "done" /\ ~ctx[p].dry_run =>
            LET r == RunRow(p)
                n == IF r.errors = None THEN 0 ELSE Len(r.errors[1])
            IN  /\ r.sites_scraped = Len(ctx[p].sites)
                /\ r.jobs_found = obs[p].returned
                /\ r.jobs_new = obs[p].fresh
                /\ r.jobs_new = Cardinality(RowsOf(ctx[p].run))
                /\ n = Cardinality(obs[p].fetchFailed)
                /\ \A i \in obs[p].fetchFailed :
                      Cardinality(Entries(r.errors[1], ctx[p].sites[i], "fetch failed")) = 1
                /\ r.status = "completed"
                /\ r.completed_at # None

\* C4 witness: site 1 returned three listings (one excluded by title, one
\* already stored, one new) and site 2 raised in fetch
C4_Witness ==
    \E p \in Procs :
        /\ ctx[p].pc = "done" /\ ~ctx[p].dry_run
        /\ Len(ctx[p].sites) = 2
        /\ obs[p].fetchFailed = {2}
        /\ obs[p].rejected = 1
        /\ RunRow(p).sites_scraped = 2
        /\ RunRow(p).jobs_found = 3
        /\ RunRow(p).jobs_new = 1
        /\ Len(RunRow(p).errors[1]) = 1

\* C5 (as claimed): no two persisted job rows share a url, and every
\* normalized url handed to a store call that ended is persisted exactly
\* once.
C5_Claim ==
    /\ \A i, j \in 1..Len(jobs) : jobs[i].url = jobs[j].url => i = j
    /\ \A u \in offered : Cardinality(RowsWith(u)) = 1

\* C6 (as claimed): a store call on the batch the previous store call was
\* given returns 0 and adds no row.
C6_Claim ==
    lastCall.repeat =>
        lastCall.outcome = "returned" /\ lastCall.ret = 0 /\ lastCall.added = 0

\* C7 (as claimed): every store call returns an integer, which is the
\* number of rows the call added.
C7_Claim ==
    lastCall.proc # 0 =>
        lastCall.outcome = "returned" /\ lastCall.ret = lastCall.added

\* C8 (as claimed): a store call that overlapped with another worker's
\* store call on a common url does not end in an error and leaves every
\* url of its batch persisted (here for batches without a repeated url).
C8_Claim ==
    /\ lastCall.overlapped
    /\ \A i, j \in 1..Len(lastCall.batch) :
          normalize_url(lastCall.batch[i].url) = normalize_url(lastCall.batch[j].url)
             => i = j
    => /\ lastCall.outcome = "returned"
       /\ \A u \in NormUrls(lastCall.batch) : Cardinality(RowsWith(u)) = 1

\* C9: a dry run counts found and excluded listings as a normal run does
\* (both equal what the adapters returned), never enters _insert_listings,
\* adds no job row and creates or updates no run row.
C9_DryRun ==
    \A p \in Procs :
        /\ LoopOver(p) =>
              /\ ctx[p].total_found = obs[p].returned
              /\ ctx[p].total_excluded = obs[p].rejected
        /\ ctx[p].dry_run =>
              /\ obs[p].insertCalls = 0
              /\ ctx[p].pc # "insert"
              /\ ctx[p].run = None
              /\ sess[p].state = "none"
              /\ Len(jobs) = obs[p].jobs0
              /\ runs = <<>>

\* C9 witness: a finished dry run that found three listings, one of them
\* excluded and one that a normal run would have stored
C9_Witness ==
    \E p \in Procs :
        /\ ctx[p].pc = "done" /\ ctx[p].dry_run
        /\ ctx[p].total_found = 3
        /\ ctx[p].total_excluded = 1
        /\ obs[p].fresh > 0
        /\ Len(jobs) = obs[p].jobs0

\* C10 (as claimed): when the loop is at its head (an adapter's work unit
\* has ended) no page opened for an adapter is still open.
C10_Claim ==
    \A p \in Procs : ctx[p].pc = "loop" => pages[p] = {}

\* C11 (as claimed): whenever run_scrape has ended, in whatever way, after
\* it began to acquire the engine, stop() has been run and neither the
\* browser nor the Playwright driver is held.
C11_Claim ==
    \A p \in Procs :
        Ended(p) => /\ engine[p].stopped
                    /\ ~engine[p].browser
                    /\ ~engine[p].playwright

\* C12: adapters are processed one after another: a page is opened for the
\* next adapter only at the head of the loop, when no fetch, filter or store
\* step of an earlier adapter is in progress, and the steps in progress
\* belong to the adapter opened last; one browser process is launched per
\* run and is the one every adapter's page is created in; every adapter's
\* page lies in a browser context created for it, which no other adapter
\* of the run is given.
C12_Sequential ==
    /\ [](\A p \in Procs :
            /\ engine[p].launched <= 1
            /\ ctx[p].pc \in {"fetch", "insert"} =>
                  /\ engine[p].browser /\ engine[p].launched = 1
                  /\ ctx[p].idx = Len(obs[p].attempts)
            /\ Len(obs[p].contextOf) = Len(obs[p].attempts)
            /\ \A i, j \in 1..Len(obs[p].contextOf) :
                  obs[p].contextOf[i] = obs[p].contextOf[j] => i = j)
    /\ [][\A p \in Procs :
            obs'[p].attempts # obs[p].attempts =>
                /\ ctx[p].pc = "loop" /\ ctx[p].to_store = <<>>
                /\ ctx[p].idx = Len(obs[p].attempts)
                /\ Len(obs'[p].attempts) = Len(obs[p].attempts) + 1
                /\ obs'[p].contextOf[Len(obs'[p].contextOf)] > engine[p].contexts]_vars

\* C12 witness: a finished run of two adapters that both returned listings
\* and stored rows, each in a context of its own of the one browser
C12_Witness ==
    \E p \in Procs :
        /\ ctx[p].pc = "done" /\ ~ctx[p].dry_run
        /\ Len(ctx[p].sites) = 2
        /\ obs[p].fetchFailed = {}
        /\ obs[p].insertCalls = 2
        /\ obs[p].contextOf = <<1, 2>>
        /\ engine[p].launched = 1
        /\ ctx[p].total_new = 2

\* C13 (as claimed): every adapter whose first page load failed has an
\* entry in the error list of the run (and so is not counted as a scrape
\* that found zero listings).
C13_Claim ==
    \A p \in Procs :
        \A i \in obs[p].navFailed :
            \E j \in 1..Len(ctx[p].errors) : ctx[p].errors[j].site = ctx[p].sites[i]

\* cards of an html that have a title and a link
WellFormed(card) == card.title # <<>> /\ card.href # NoHref /\ card.raises = ""
FullCards(html) == {i \in 1..Len(html) : WellFormed(html[i])}

\* C14 (as claimed): every call of parse returns one listing for every card
\* of the html that has a title and a link, and a second call on the same
\* adapter instance with the same html returns what the first returned.
C14_Claim ==
    lab.fn = "parse" =>
        /\ \A k \in 1..Len(lab.out) :
              Len(lab.out[k]) = Cardinality(FullCards(lab.html))
        /\ Len(lab.out) = 2 => lab.out[2] = lab.out[1]

\* the text contains the term in any letter case, also inside a longer word
Contains(text, term) ==
    \E i \in 1..Len(text) : Spells(text, i, term)

\* C15 (as claimed): matches_filters is false for every title that contains
\* junior, praktikum, werkstudent or trainee in any letter case, also inside
\* a longer word, and true for every title that contains none of the four,
\* whatever the description is.
C15_Claim ==
    lab.fn = "matches_filters" /\ lab.out # <<>> =>
        LET hit == \E term \in {<<"junior">>, <<"praktikum">>, <<"werkstudent">>,
                                 <<"trainee">>} :
                      Contains(lab.title, term)
        IN  /\ lab.out[1].first = ~hit
            /\ lab.out[1].second = ~hit

\* C16: two listings with the same title get the same answer from
\* matches_filters whatever their description, location and company are;
\* the answer is that no exclusion pattern matches the title (no inclusion,
\* remote or local pattern takes part), and run_scrape keeps for storing
\* exactly the listings with that answer.
C16_TitleOnly ==
    lab.fn = "matches_filters" /\ lab.out # <<>> =>
        /\ lab.out[1].first = lab.out[1].second
        /\ lab.out[1].first = ~search(EXCLUDE_PATTERNS, lab.title)
        /\ Len(lab.out[1].to_store) = IF lab.out[1].first THEN 2 ELSE 0

\* C16 witness: Data Architect (a title no inclusion pattern matches), once
\* in Berlin with a description that mentions junior staff and once fully
\* remote at Trainee GmbH: both listings are kept for storing
C16_Witness ==
    /\ lab.fn = "matches_filters" /\ lab.out # <<>>
    /\ lab.title = <<"Data", " ", "Architect">>
    /\ lab.a.description = <<"mentoring", " ", "junior", " ", "staff">>
    /\ lab.a.location = <<"Berlin">>
    /\ lab.b.location = <<"fully", " ", "remote">>
    /\ lab.b.company = <<"Trainee", " ", "GmbH">>
    /\ lab.out[1].first /\ lab.out[1].second
    /\ Len(lab.out[1].to_store) = 2

Count(q, kv) == Cardinality({i \in 1..Len(q) : q[i] = kv})

\* C19 (as claimed): the result of normalize_url has the scheme and the
\* host of its argument and its path apart from trailing slashes, it keeps
\* every pair of the query whose key is no tracking parameter, and two
\* URLs that differ in such a pair do not normalize to the same string.
C19_Claim ==
    lab.fn = "normalize_url" /\ lab.out # <<>> =>
        LET pu == urlparse(lab.u)
        IN  /\ lab.out[1].scheme = lab.u.scheme
            /\ lab.out[1].netloc = lab.u.netloc
            /\ \E n \in 0..Len(pu.path) :
                  /\ \A i \in (Len(pu.path) - n + 1)..Len(pu.path) : pu.path[i] = "/"
                  /\ lab.out[1].path =
                        urlunparse([pu EXCEPT !.path = SubSeq(@, 1, Len(@) - n)]).path
            /\ \A kv \in PlainPairs :
                  Count(lab.out[1].query, kv) = Count(lab.u.query, kv)
            /\ lab.edit.kind = "pair" /\ lab.edit.pair \in PlainPairs
                  => lab.out[1] # lab.out[2]

\* C20: a listing whose posted_date is no ISO date is stored like any
\* other, with posted_date absent (a parseable date is stored); a store
\* call ends only when every listing of its batch has been processed; and
\* no store call fails with the ValueError of a date that cannot be parsed.
C20_BestEffort ==
    /\ [](/\ \A i \in 1..Len(jobs) :
               \E l \in Listings :
                   /\ jobs[i].url = normalize_url(l.url)
                   /\ jobs[i].posted_date =
                         IF l.posted_date \in IsoDates THEN <<l.posted_date>> ELSE None
           /\ \A p \in Procs : \A j \in 1..Len(ctx[p].errors) :
                   ctx[p].errors[j].error # "ValueError")
    /\ [][\A p \in Procs :
            ctx[p].pc = "insert" /\ ctx'[p].pc # "insert"
                => ctx[p].k = Len(ctx[p].to_store)]_vars

\* C20 witness: one store call returned 2 after it stored /jobs/2, whose
\* posted_date "vor 3 Tagen" cannot be parsed, with posted_date absent, and
\* then the listing after it, /jobs/1, with its date
C20_Witness ==
    /\ lastCall.outcome = "returned" /\ lastCall.ret = 2
    /\ Len(jobs) = 2
    /\ jobs[1].url = normalize_url(U2) /\ jobs[1].posted_date = None
    /\ jobs[2].url = normalize_url(U1) /\ jobs[2].posted_date = <<"2026-02-28">>
    /\ jobs[1].run_id = jobs[2].run_id

\* C21: start() on an engine that holds a browser launches nothing: at
\* any time at most one browser process launched by the engine and at most
\* one driver started by it is alive, and after a stop() called last none.
C21_Claim ==
    /\ engine[1].alive <= 1
    /\ engine[1].drivers <= 1
    /\ lab.fn = "engine" /\ lab.last = "stop" => engine[1].alive = 0

\* C22: new_page() on an engine that holds no browser (never started, or
\* stopped) raises RuntimeError and creates no browser context; stop() on an
\* engine that holds neither browser nor driver (never started, or stopped
\* before) raises nothing and changes nothing.
C22_NotStarted ==
    [][lab.fn = "engine" /\ lab'.calls = lab.calls + 1 =>
         /\ lab'.last = "new_page" /\ ~engine[1].browser
               => /\ engine'[1].error = "RuntimeError"
                  /\ engine'[1].contexts = engine[1].contexts
         /\ lab'.last = "stop" /\ ~engine[1].browser /\ ~engine[1].playwright
               => engine'[1] = [engine[1] EXCEPT !.stopped = TRUE, !.error = ""]]_vars

\* C22 witness: new_page() was called after start() and stop(), raised and
\* left the engine without any context
C22_Witness ==
    /\ lab.fn = "engine" /\ lab.last = "new_page" /\ ~lab.started
    /\ engine[1].launched = 1 /\ engine[1].stopped
    /\ engine[1].error = "RuntimeError" /\ engine[1].contexts = 0

\* C23: get_site with a name that is not registered raises ValueError
\* whose message lists every registered name and constructs no adapter;
\* with a registered name it returns a newly constructed instance of the
\* adapter registered under that name.
C23_GetSite ==
    lab.fn = "get_site" =>
        \A i \in 1..Len(lab.out) :
            LET r == lab.out[i]
                before == IF i = 1 THEN 0 ELSE lab.out[i - 1].instances
            IN  IF r.name \notin lab.registry
                THEN /\ r.raised = "ValueError"
                     /\ {r.message[4][k] : k \in 1..Len(r.message[4])} = lab.registry
                     /\ r.instance = None /\ r.instances = before
                ELSE /\ r.raised = "" /\ r.instances = before + 1
                     /\ r.instance[1].name = r.name
                     /\ \A j \in 1..(i - 1) :
                           lab.out[j].instance # None
                              => lab.out[j].instance[1].id # r.instance[1].id

\* C23 witness: on a registry with xing and a company adapter registered,
\* get_site returned an xing adapter and then raised for an unknown name
C23_Witness ==
    /\ lab.fn = "get_site" /\ Len(lab.out) = 2
    /\ lab.registry = {"amazon", "xing"}
    /\ lab.out[1].name = "xing" /\ lab.out[1].instance # None
    /\ lab.out[2].name = "Xing" /\ lab.out[2].raised = "ValueError"

\* C24: the field normalizers never raise: classify_job_type,
\* classify_remote, parse_posted_date and normalize_url return for every
\* input string, and a text that no pattern matches yields "".
C24_Claim ==
    /\ lab.fn = "classify" /\ lab.out # <<>>
          => lab.out[1].job_type.raised = "" /\ lab.out[1].remote.raised = ""
    /\ lab.fn = "parse_posted_date" /\ lab.out # <<>>
          => /\ lab.out[1].raised = ""
             /\ lab.raw.iso = "" /\ lab.raw.units = {} => lab.out[1].value = <<>>
    /\ lab.fn = "normalize_url of any string" /\ lab.out # <<>>
          => lab.out[1].raised = ""

\* C25 (as claimed): in every adapter's parse a card without title or
\* link, or whose extraction raises, is skipped alone: parse returns what
\* it returns for the html without the malformed cards, so every
\* well-formed card is returned as if the malformed ones were not there.
C25_Claim ==
    lab.fn = "parse" /\ lab.out # <<>> =>
        lab.out[1] = parse(lab.site, {}, SelectSeq(lab.html, WellFormed)).listings

\* C26 (as claimed): the row of a finalized run stores the number of
\* listings the filter rejected in that run, next to jobs_found and
\* jobs_new, and the listings found are the excluded plus the accepted ones.
C26_Claim ==
    \A p \in Procs :
        ctx[p].pc = "done" /\ ctx[p].run # None =>
            /\ "jobs_excluded" \in DOMAIN RunRow(p)
            /\ RunRow(p).jobs_excluded = obs[p].rejected
            /\ RunRow(p).jobs_found = obs[p].rejected + RunRow(p).jobs_matched

\* C27: jobs_new <= jobs_found: the running total of new rows never
\* exceeds the running total of listings found, at any point of a run, and
\* every row of scrape_runs has jobs_new <= jobs_found.
C27_NewAtMostFound ==
    /\ \A p \in Procs :
          /\ ctx[p].total_new <= ctx[p].total_found
          /\ ctx[p].total_new + ctx[p].new_count <= ctx[p].total_found
    /\ \A i \in 1..Len(runs) : runs[i].jobs_new <= runs[i].jobs_found

\* C27 witness: a finalized run over two sites that found three listings
\* and stored two of them, with one adapter error
C27_Witness ==
    \E p \in Procs :
        /\ ctx[p].pc = "done" /\ ctx[p].run # None
        /\ Len(ctx[p].sites) = 2 /\ Len(ctx[p].errors) = 1
        /\ RunRow(p).jobs_found = 3 /\ RunRow(p).jobs_new = 2

\* C28 (as claimed): with max_searches = n >= 1, one fetch of the xing
\* adapter calls page.goto at most n times, whatever pagination errors occur.
C28_Claim ==
    lab.fn = "fetch" /\ lab.max_searches # None => lab.gotos <= lab.max_searches[1]

\* C29 (as claimed): with max_searches unset and no page.goto failing, a
\* fetch that has returned ran all 18 searches, one per pair of the 6
\* searches and 3 keywords, and appended the first page of each, also when
\* the "Mehr" button failed to show for some of them.
C29_Claim ==
    lab.fn = "fetch" /\ lab.max_searches = None /\ lab.pc = "return"
       /\ ~lab.goto_failed =>
        /\ lab.gotos = 18
        /\ lab.first_pages = (1..Len(searches)) \X (1..Len(KEYWORDS))

\* C30 (as claimed): a failed commit of one adapter's listings is contained
\* to that adapter: it is recorded once under the adapter's name and adds
\* nothing to jobs_new, no later adapter of the run fails to store because
\* of it, and the run ends finalized as completed.
C30_Claim ==
    \A p \in Procs :
        LET failed == {j \in 1..Len(ctx[p].errors) :
                          ctx[p].errors[j].error = "IntegrityError"}
        IN  failed # {} =>
              /\ \A j \in 1..Len(ctx[p].errors) :
                    ctx[p].errors[j].error # "PendingRollbackError"
              /\ Ended(p) => /\ ctx[p].pc = "done"
                             /\ RunRow(p).status = "completed"
                             /\ RunRow(p).jobs_new = Cardinality(RowsOf(ctx[p].run))

====
